---- MODULE Spec2Model ----
(***************************************************************************)
(* Model of libavcodec/mediacodecenc.c: the MediaCodec encoder session     *)
(* (ff_mediacodec_enc_init / ff_mediacodec_enc_encode /                    *)
(* ff_mediacodec_enc_close) driven by one caller thread against an         *)
(* encoder whose answers are nondeterministic.                             *)
(*                                                                         *)
(* ff_mediacodec_enc_encode is modelled by one action for an iteration of  *)
(* its input loop (lines 196-275) and one action for each branch of its    *)
(* output phase (lines 277-444); the encoder's and the allocator's answers *)
(* are the inputs of these actions. pc is "idle" between calls, "L198" at  *)
(* the head of an iteration, "L277" before the output dequeue, "return"    *)
(* once the call has returned and the caller sees its results, "crash"     *)
(* when line 352 has copied from a NULL extradata.                         *)
(***************************************************************************)
EXTENDS Integers, Sequences, FiniteSets, TLC

\* ------------------------------------------------------------------ bounds
\* encode calls in one behaviour
MaxCalls == 2
\* init calls in one behaviour of the lifecycle specification
MaxInits == 4
\* frame_size arguments and input buffer capacities are 0..MaxFrameSize
MaxFrameSize == 2
\* info.size of an output buffer is 0..MaxInfoSize
MaxInfoSize == 1
\* input-buffer requests the model follows within one call
MaxInputRequests == 2
\* frame timestamps of the timestamp specification are 0..MaxPts
MaxPts == 20
\* pixel formats of the pixel format specification are -1..MaxPixFmt
MaxPixFmt == 30

\* ------------------------------------------------------- program constants
NULL == 0
AVERROR_EXTERNAL == -542398533
AVERROR_ENOMEM == -12
\* the dequeue results the info* predicates of the wrapper recognise
INFO_TRY_AGAIN_LATER == -1
INFO_OUTPUT_FORMAT_CHANGED == -2
INFO_OUTPUT_BUFFERS_CHANGED == -3

BUFFER_FLAG_KEY_FRAME == "KEY_FRAME"
BUFFER_FLAG_CODEC_CONFIG == "CODEC_CONFIG"
BUFFER_FLAG_END_OF_STREAM == "END_OF_STREAM"

VARIABLES
    s,           \* MediaCodecEncContext
    avctx,       \* AVCodecContext: flags, extradata, extradata_size
    pkt,         \* AVPacket of the current call
    got_packet,  \* *got_packet of the current call
    pc,          \* "idle" between calls, else the line of the next statement
    frame_size,  \* argument of the current call
    offset,      \* local of the current call
    ret,         \* value returned by the last call that returned
    call,        \* what the current encode call has asked of the encoder
    branch,      \* output outcome branches entered by the current encode call
    hist         \* history of the session since construction

vars == <<s, avctx, pkt, got_packet, pc, frame_size, offset, ret, call, branch,
          hist>>

\* ----------------------------------------------------------------- helpers
FFMIN(a, b) == IF a > b THEN b ELSE a

Take(seq, n) == SubSeq(seq, 1, FFMIN(n, Len(seq)))

\* a buffer of n bytes all equal to b
Bytes(n, b) == [j \in 1..n |-> b]

\* ff_AMediaCodec_infoTryAgainLater and friends compare the dequeue result
\* with the codec's INFO_* constants
infoTryAgainLater(idx) == idx = INFO_TRY_AGAIN_LATER

infoOutputFormatChanged(idx) == idx = INFO_OUTPUT_FORMAT_CHANGED

infoOutputBuffersChanged(idx) == idx = INFO_OUTPUT_BUFFERS_CHANGED

\* the buffer indices the encoder hands out: a call may go through several
\* input buffers, and dequeues one output buffer at most
InputBufferIndices == {0, 1}

OutputBufferIndices == {0}

\* what the encoder may answer
InputDequeueResults ==
    InputBufferIndices \cup {INFO_TRY_AGAIN_LATER, AVERROR_EXTERNAL}

OutputDequeueResults ==
    OutputBufferIndices \cup {INFO_TRY_AGAIN_LATER, INFO_OUTPUT_FORMAT_CHANGED,
                              INFO_OUTPUT_BUFFERS_CHANGED, AVERROR_EXTERNAL}

StatusResults == {0, AVERROR_EXTERNAL}

OutputFlags == {{}, {BUFFER_FLAG_KEY_FRAME}, {BUFFER_FLAG_CODEC_CONFIG}}

\* byte values an output buffer may hold
ByteValues == {1, 2}

\* the packet and the bookkeeping of a call that has not started
\* pts is "" as the caller left it, "pkt_pts" once line 381 has set it from the
\* buffer's timestamp, "AV_NOPTS_VALUE" once line 390 has unset it
NoPacket == [size |-> 0, data |-> <<>>, alloc |-> 0, key |-> FALSE, pts |-> ""]

NoInfo == [size |-> 0, flags |-> {}]

\* inReq, outReq: dequeue calls made; inHeld, outHeld: buffers dequeued and not
\* yet queued or released; queued: the queueInputBuffer calls; timedOut: the
\* last input dequeue said try-again; inFailed: the call returned from its
\* input loop with an error; outIdx, outInfo: what the output dequeue gave;
\* outData: the bytes of the output buffer when getOutputBuffer gave them;
\* staleRead: an output buffer was read while the call did not hold it;
\* staleWrite: an input buffer was written while the call did not hold it;
\* msg: the line of the try-again message; eosBefore: an end-of-stream buffer
\* had been queued before the call began
NoCall ==
    [inReq |-> 0, inHeld |-> [i \in InputBufferIndices |-> 0], queued |-> <<>>,
     timedOut |-> FALSE, inFailed |-> FALSE,
     outReq |-> 0, outIdx |-> 0, outInfo |-> NoInfo, outData |-> <<>>,
     staleRead |-> FALSE, staleWrite |-> FALSE,
     outHeld |-> [i \in OutputBufferIndices |-> 0],
     msg |-> "", eosBefore |-> FALSE]

\* ------------------------------------------------------------------- Init
\* A never-initialised session: the context is zero-filled.
Init ==
    /\ s = [codec |-> NULL, first_buffer |-> 0, queued_buffer_nb |-> 0,
            queued_buffer_max |-> 0, dequeued_buffer_nb |-> 0,
            flushing |-> FALSE, format |-> NULL,
            extradata |-> <<>>, extradata_size |-> 0]
    /\ avctx \in [global_header : BOOLEAN, extradata : {<<>>}, extradata_size : {0}]
    /\ pkt = NoPacket
    /\ got_packet = 0
    /\ pc = "idle"
    /\ frame_size = 0
    /\ offset = 0
    /\ ret = 0
    /\ call = NoCall
    /\ branch = <<>>
    /\ hist = [inits |-> 0, calls |-> 0, created |-> 0, deleted |-> <<>>,
               submits |-> 0, retrievals |-> 0, prefixAt |-> {}, eos |-> FALSE,
               fmtCreated |-> 0, fmtDeleted |-> <<>>, fmtChanged |-> FALSE,
               last |-> ""]

\* ------------------------------------------------------- ff_mediacodec_enc_close
\* the handles ff_AMediaCodec_delete is called on
CloseDeletes(sess) == IF sess.codec # NULL THEN <<sess.codec>> ELSE <<>>

\* fault injection: close also clearing the first-payload counter
CloseSessionResets(sess) == [sess EXCEPT !.codec = NULL, !.first_buffer = 0]

\* lines 449-452: what close leaves of the session
CloseSession(sess) == [sess EXCEPT !.codec = NULL]

EncClose ==
    /\ pc = "idle"
    /\ s' = CloseSession(s)
    /\ hist' = [hist EXCEPT !.deleted = hist.deleted \o CloseDeletes(s),
                             !.last = "close"]
    /\ ret' = 0
    /\ UNCHANGED <<avctx, pkt, got_packet, pc, frame_size, offset, call, branch>>

\* ------------------------------------------------------- ff_mediacodec_enc_init
InitOutcomes == {"create_fails", "configure_fails", "start_fails", "started"}

EncInit(outcome) ==
    /\ pc = "idle"
    /\ LET created == outcome # "create_fails"
           h == IF created THEN hist.created + 1 ELSE NULL
           s1 == [s EXCEPT !.first_buffer = 0, !.codec = h]
           failed == outcome # "started"
       IN  /\ s' = IF failed THEN CloseSession(s1) ELSE s1
           /\ hist' = [hist EXCEPT
                         !.inits = @ + 1,
                         !.created = IF created THEN @ + 1 ELSE @,
                         !.deleted = IF failed THEN @ \o CloseDeletes(s1) ELSE @,
                         !.last = "init"]
           /\ ret' = IF failed THEN AVERROR_EXTERNAL ELSE 0
    /\ UNCHANGED <<avctx, pkt, got_packet, pc, frame_size, offset, call, branch>>

\* the codec is opened once: init on the never-initialised session
Open(outcome) ==
    /\ hist.inits = 0
    /\ EncInit(outcome)

\* init whatever the state of the session
Reinit(outcome) ==
    /\ hist.inits < MaxInits
    /\ EncInit(outcome)

\* ---------------------------------------------------- ff_mediacodec_enc_encode
\* return v: the caller sees the value, the packet and *got_packet; the
\* function's locals are gone
Return(v) ==
    /\ ret' = v
    /\ pc' = "return"
    /\ offset' = 0

\* the condition of the while loop of line 196
LoopCond(off, fs) == off < fs \/ fs = 0

\* lines 175-196: entry of the function up to the first test of the loop
\* condition; the caller hands in a fresh packet and *got_packet = 0
EncodeBegin(fs) ==
    /\ pc = "idle"
    /\ s.codec # NULL
    /\ hist.calls < MaxCalls
    /\ frame_size' = fs
    /\ offset' = 0
    /\ ret' = 0
    /\ got_packet' = 0
    /\ pkt' = NoPacket
    /\ call' = [NoCall EXCEPT !.eosBefore = hist.eos]
    /\ branch' = <<>>
    /\ hist' = [hist EXCEPT !.calls = @ + 1]
    /\ pc' = IF LoopCond(0, fs) THEN "L198" ELSE "L277"
    /\ UNCHANGED <<s, avctx>>

\* the caller has taken the results of the call
EncodeReturn ==
    /\ pc = "return"
    /\ pc' = "idle"
    /\ frame_size' = 0
    /\ ret' = 0
    /\ got_packet' = 0
    /\ pkt' = NoPacket
    /\ call' = NoCall
    /\ branch' = <<>>
    /\ UNCHANGED <<s, avctx, offset, hist>>

\* fault injection: the try-again result of the input dequeue treated as fatal
AfterInputDequeueFatal(idx) == IF idx < 0 THEN "return" ELSE "L212"

\* lines 200-209: where control goes with the result of the input dequeue
AfterInputDequeue(idx) ==
    IF infoTryAgainLater(idx) THEN "L277"
    ELSE IF idx < 0 THEN "return"
    ELSE "L212"

\* ff_AMediaCodec_getInputBuffer: NULL, or the buffer and its capacity
GetBufferResults ==
    {r \in [ok : BOOLEAN, cap : 0..MaxFrameSize] : ~r.ok => r.cap = 0}

\* fault injection: the whole buffer taken, FFMIN left out
CopySizeWholeBuffer(fs, off, cap) == cap

\* line 232
CopySize(fs, off, cap) == FFMIN(fs - off, cap)

\* one ff_AMediaCodec_dequeueInputBuffer call and its result
Requested(c, r) ==
    [c EXCEPT !.inReq = @ + 1,
              !.timedOut = infoTryAgainLater(r),
              !.inHeld = IF r >= 0 THEN [@ EXCEPT ![r] = @ + 1] ELSE @]

\* one ff_AMediaCodec_queueInputBuffer call: the buffer goes back to the encoder
Queued(c, idx, sz, fl, status) ==
    [c EXCEPT !.inHeld = [@ EXCEPT ![idx] = @ - 1],
              !.queued = Append(@, [size |-> sz, flags |-> fl, status |-> status]),
              !.inFailed = status < 0]

\* lines 237, 238: a memcpy writes the memory of input buffer idx
WritesBuffer(c, idx) == [c EXCEPT !.staleWrite = @ \/ c.inHeld[idx] <= 0]

\* fault injection: the break of line 272 left out
AfterQueueInputNoBreak(fs, off) == IF LoopCond(off, fs) THEN "L198" ELSE "L277"

\* where the loop goes after a queueInputBuffer that succeeded: the break of
\* line 272 for the end-of-stream buffer, else the loop condition of line 196
AfterQueueInput(fs, off) ==
    IF fs = 0 THEN "L277"
    ELSE IF LoopCond(off, fs) THEN "L198" ELSE "L277"

\* lines 231-259 and the loop condition of line 196: a portion of a real frame
\* goes into buffer idx of capacity cap
SubmitFrame(idx, cap, status) ==
    LET sz == CopySize(frame_size, offset, cap)
    IN  /\ call' = Queued(WritesBuffer(Requested(call, idx), idx), idx, sz, {},
                           status)
        /\ IF status < 0
             THEN /\ Return(AVERROR_EXTERNAL)
                  /\ UNCHANGED <<s, hist>>
             ELSE /\ s' = [s EXCEPT
                             !.queued_buffer_nb = @ + 1,
                             !.queued_buffer_max =
                                IF s.queued_buffer_nb + 1 > @
                                  THEN s.queued_buffer_nb + 1 ELSE @]
                  /\ hist' = [hist EXCEPT !.submits = @ + 1]
                  /\ offset' = offset + sz
                  /\ pc' = AfterQueueInput(frame_size, offset + sz)
                  /\ ret' = ret

\* lines 260-273: the end-of-stream buffer, then break
SubmitEndOfStream(idx, status) ==
    /\ call' = Queued(Requested(call, idx), idx, 0,
                      {BUFFER_FLAG_END_OF_STREAM}, status)
    /\ UNCHANGED s
    /\ IF status < 0
         THEN /\ Return(AVERROR_EXTERNAL)
              /\ UNCHANGED hist
         ELSE /\ hist' = [hist EXCEPT !.eos = TRUE]
              /\ pc' = AfterQueueInput(frame_size, offset)
              /\ UNCHANGED <<offset, ret>>

\* lines 196-275: one iteration of the input loop; r, buf and status are the
\* answers of ff_AMediaCodec_dequeueInputBuffer, ff_AMediaCodec_getInputBuffer
\* and ff_AMediaCodec_queueInputBuffer
InputIteration ==
    /\ pc = "L198"
    /\ call.inReq < MaxInputRequests
    /\ \E r \in InputDequeueResults :
         IF AfterInputDequeue(r) = "L277"
           THEN \* line 202: break
                /\ call' = Requested(call, r)
                /\ pc' = "L277"
                /\ UNCHANGED <<s, hist, offset, ret>>
         ELSE IF AfterInputDequeue(r) = "return"
           THEN \* line 208
                /\ call' = [Requested(call, r) EXCEPT !.inFailed = TRUE]
                /\ Return(AVERROR_EXTERNAL)
                /\ UNCHANGED <<s, hist>>
         ELSE \E buf \in GetBufferResults :
                IF ~buf.ok
                  THEN \* line 215
                       /\ call' = [Requested(call, r) EXCEPT !.inFailed = TRUE]
                       /\ Return(AVERROR_EXTERNAL)
                       /\ UNCHANGED <<s, hist>>
                  ELSE \E status \in StatusResults :
                         IF frame_size # 0
                           THEN SubmitFrame(r, buf.cap, status)
                           ELSE SubmitEndOfStream(r, status)
    /\ UNCHANGED <<avctx, pkt, got_packet, frame_size, branch>>

\* one ff_AMediaCodec_dequeueOutputBuffer call and its result
Dequeued(c, r, inf) ==
    [c EXCEPT !.outReq = @ + 1,
              !.outIdx = r,
              !.outInfo = inf,
              !.outHeld = IF r >= 0 THEN [@ EXCEPT ![r] = @ + 1] ELSE @]

\* line 299: ff_AMediaCodec_getOutputBuffer gave the buffer, which holds data
GotBuffer(c, data) == [c EXCEPT !.outData = data]

\* fault injection: the release of the output buffer left out
ReleasedNot(c, idx) == c

\* one ff_AMediaCodec_releaseOutputBuffer call
Released(c, idx) == [c EXCEPT !.outHeld = [@ EXCEPT ![idx] = @ - 1]]

\* lines 326, 342, 353, 370: a memcpy reads the memory of output buffer idx
ReadsBuffer(c, idx) == [c EXCEPT !.staleRead = @ \/ c.outHeld[idx] <= 0]

\* the if / else-if chain of lines 297, 399, 426, 429, 438
TakesBuffer(idx) == idx >= 0

TakesFormatChanged(idx) == ~(idx >= 0) /\ infoOutputFormatChanged(idx)

TakesBuffersChanged(idx) ==
    /\ ~(idx >= 0)
    /\ ~infoOutputFormatChanged(idx)
    /\ infoOutputBuffersChanged(idx)

TakesTryAgain(idx) ==
    /\ ~(idx >= 0)
    /\ ~infoOutputFormatChanged(idx)
    /\ ~infoOutputBuffersChanged(idx)
    /\ infoTryAgainLater(idx)

\* fault injection: the final branch not chained with else
TakesFatalNoElse(idx) == ~(idx >= 0)

TakesFatal(idx) ==
    /\ ~(idx >= 0)
    /\ ~infoOutputFormatChanged(idx)
    /\ ~infoOutputBuffersChanged(idx)
    /\ ~infoTryAgainLater(idx)

\* ff_alloc_packet2 of line 309 gave a packet of n bytes
Allocated(n) == [NoPacket EXCEPT !.alloc = n, !.size = n]

\* the bytes a read through an output buffer pointer yields once the buffer
\* has gone back to the encoder: what was there, or whatever the encoder wrote
ReadAfterRelease(d) == {d} \cup {Bytes(Len(d), b) : b \in ByteValues}

\* lines 316-346: the buffer carries the codec configuration
ConfigPath(c, idx, inf, data) ==
    /\ pkt' = Allocated(inf.size)
    /\ UNCHANGED <<got_packet, hist>>
    /\ \E allocated \in BOOLEAN :
         IF ~allocated
           THEN \* line 321
                /\ s' = [s EXCEPT !.extradata = <<>>]
                /\ call' = c
                /\ Return(AVERROR_EXTERNAL)
                /\ UNCHANGED avctx
           ELSE /\ s' = [s EXCEPT !.extradata = Take(data, inf.size),
                                  !.extradata_size = inf.size]
                /\ \E status \in StatusResults :
                     IF status < 0
                       THEN \* line 333
                            /\ call' = Released(ReadsBuffer(c, idx), idx)
                            /\ Return(AVERROR_EXTERNAL)
                            /\ UNCHANGED avctx
                     ELSE IF ~avctx.global_header
                       THEN \* line 346
                            /\ call' = Released(ReadsBuffer(c, idx), idx)
                            /\ Return(offset)
                            /\ UNCHANGED avctx
                       ELSE \E copied \in BOOLEAN :
                              IF ~copied
                                THEN \* line 339
                                     /\ call' = Released(ReadsBuffer(c, idx), idx)
                                     /\ avctx' = [avctx EXCEPT !.extradata = <<>>]
                                     /\ Return(AVERROR_ENOMEM)
                                ELSE \* lines 341-346: data is read after line 330
                                     /\ call' = ReadsBuffer(
                                                  Released(ReadsBuffer(c, idx), idx),
                                                  idx)
                                     /\ \E d \in ReadAfterRelease(Take(data, inf.size)) :
                                          avctx' = [avctx EXCEPT
                                                      !.extradata = d,
                                                      !.extradata_size = inf.size]
                                     /\ Return(offset)

\* fault injection: the test of first_buffer left out
PrependsExtradataAlways(first_buffer, global_header) == ~global_header

\* line 350: the configuration bytes go in front of this payload
PrependsExtradata(first_buffer, global_header) ==
    first_buffer = 0 /\ ~global_header

\* lines 349-397: the buffer carries a payload
PayloadPath(c, idx, inf, data) ==
    LET prepend == PrependsExtradata(s.first_buffer, avctx.global_header)
    IN  /\ UNCHANGED avctx
        /\ IF prepend /\ s.extradata = <<>> /\ s.extradata_size > 0
             THEN \* line 352 copies extradata_size bytes from a NULL extradata
                  /\ pc' = "crash"
                  /\ s' = [s EXCEPT !.first_buffer = @ + 1]
                  /\ pkt' = Allocated(inf.size)
                  /\ call' = c
                  /\ UNCHANGED <<got_packet, hist, offset, ret>>
             ELSE /\ pkt' = [Allocated(inf.size) EXCEPT
                               !.data = IF prepend
                                          THEN Take(s.extradata, s.extradata_size)
                                               \o Take(data, inf.size)
                                          ELSE Take(data, inf.size),
                               !.size = IF prepend
                                          THEN inf.size + s.extradata_size
                                          ELSE inf.size,
                               !.key = BUFFER_FLAG_KEY_FRAME \in inf.flags,
                               !.pts = "pkt_pts"]
                  /\ got_packet' = 1
                  /\ s' = [s EXCEPT !.first_buffer = @ + 1,
                                    !.queued_buffer_nb = @ - 1,
                                    !.dequeued_buffer_nb = @ + 1]
                  /\ hist' = [hist EXCEPT
                                !.retrievals = @ + 1,
                                !.prefixAt = IF prepend
                                               THEN @ \cup {hist.retrievals + 1}
                                               ELSE @]
                  /\ call' = Released(ReadsBuffer(c, idx), idx)
                  /\ \E status \in StatusResults :
                       IF status < 0
                         THEN Return(AVERROR_EXTERNAL)
                         ELSE Return(offset)

\* lines 388-397: the buffer is empty
EmptyPath(c, idx, inf) ==
    /\ pkt' = [Allocated(inf.size) EXCEPT !.size = 0, !.pts = "AV_NOPTS_VALUE"]
    /\ call' = Released(c, idx)
    /\ \E status \in StatusResults :
         IF status < 0 THEN Return(AVERROR_EXTERNAL) ELSE Return(offset)
    /\ UNCHANGED <<s, avctx, got_packet, hist>>

\* lines 314, 315: which of the three the buffer is
AfterAllocPacket(inf) ==
    IF inf.size > 0
      THEN IF BUFFER_FLAG_CODEC_CONFIG \in inf.flags THEN "L318" ELSE "L349"
      ELSE "L389"

\* lines 277, 297-397, 444: the output dequeue gives buffer idx with info inf
RealBuffer ==
    /\ pc = "L277"
    /\ branch' = Append(branch, "buffer")
    /\ \E idx \in OutputDequeueResults, sz \in 0..MaxInfoSize, fl \in OutputFlags :
         /\ TakesBuffer(idx)
         /\ LET inf == [size |-> sz, flags |-> fl]
                c == Dequeued(call, idx, inf)
            IN  \E found \in BOOLEAN :
                  IF ~found
                    THEN \* line 303
                         /\ call' = c
                         /\ Return(AVERROR_EXTERNAL)
                         /\ UNCHANGED <<s, avctx, pkt, got_packet, hist>>
                    ELSE \E allocated \in BOOLEAN, b \in ByteValues :
                           /\ (~allocated \/ sz = 0) => b = 1
                           /\ IF ~allocated
                                THEN \* line 311
                                     /\ call' = GotBuffer(c, Bytes(sz, b))
                                     /\ Return(AVERROR_ENOMEM)
                                     /\ UNCHANGED <<s, avctx, pkt, got_packet, hist>>
                              ELSE IF AfterAllocPacket(inf) = "L318"
                                THEN ConfigPath(GotBuffer(c, Bytes(sz, b)), idx, inf,
                                                Bytes(sz, b))
                              ELSE IF AfterAllocPacket(inf) = "L349"
                                THEN PayloadPath(GotBuffer(c, Bytes(sz, b)), idx, inf,
                                                 Bytes(sz, b))
                                ELSE EmptyPath(GotBuffer(c, Bytes(sz, b)), idx, inf)
    /\ UNCHANGED frame_size

\* lines 122-125
mediacodec_enc_parse_format == 0

\* fault injection: the cached format overwritten without being deleted
FormatDeletesNothing(format) == <<>>

\* lines 402-407: the formats ff_AMediaFormat_delete is called on
FormatDeletes(format) == IF format # NULL THEN <<format>> ELSE <<>>

\* lines 277, 399-424, 444
FormatChanged ==
    /\ pc = "L277"
    /\ branch' = Append(branch, "format_changed")
    /\ \E idx \in OutputDequeueResults :
         /\ TakesFormatChanged(idx)
         /\ call' = Dequeued(call, idx, NoInfo)
    /\ \E outcome \in {"no_format", "no_string", "described"} :
         LET fmt == IF outcome = "no_format" THEN NULL ELSE hist.fmtCreated + 1
         IN  /\ s' = [s EXCEPT !.format = fmt]
             /\ hist' = [hist EXCEPT
                           !.fmtDeleted = @ \o FormatDeletes(s.format),
                           !.fmtCreated = IF fmt # NULL THEN @ + 1 ELSE @,
                           !.fmtChanged = TRUE]
             /\ IF outcome # "described"
                  THEN Return(AVERROR_EXTERNAL)
                ELSE IF mediacodec_enc_parse_format < 0
                  THEN Return(mediacodec_enc_parse_format)
                  ELSE Return(offset)
    /\ UNCHANGED <<avctx, pkt, got_packet, frame_size>>

\* lines 277, 426-428, 444
BuffersChanged ==
    /\ pc = "L277"
    /\ branch' = Append(branch, "buffers_changed")
    /\ \E idx \in OutputDequeueResults :
         /\ TakesBuffersChanged(idx)
         /\ call' = Dequeued(call, idx, NoInfo)
    /\ Return(offset)
    /\ UNCHANGED <<s, avctx, pkt, got_packet, frame_size, hist>>

\* lines 430-437: the message logged on a try-again result
TryAgainMessage(flushing) == IF flushing THEN "L431" ELSE "L436"

\* lines 277, 429-437, 444
TryAgain ==
    /\ pc = "L277"
    /\ branch' = Append(branch, "try_again")
    /\ \E idx \in OutputDequeueResults :
         /\ TakesTryAgain(idx)
         /\ call' = [Dequeued(call, idx, NoInfo) EXCEPT !.msg = TryAgainMessage(s.flushing)]
    /\ Return(offset)
    /\ UNCHANGED <<s, avctx, pkt, got_packet, frame_size, hist>>

\* lines 277, 438-441
Fatal ==
    /\ pc = "L277"
    /\ branch' = Append(branch, "fatal")
    /\ \E idx \in OutputDequeueResults :
         /\ TakesFatal(idx)
         /\ call' = Dequeued(call, idx, NoInfo)
    /\ Return(AVERROR_EXTERNAL)
    /\ UNCHANGED <<s, avctx, pkt, got_packet, frame_size, hist>>

\* one step of an encode call
EncodeStep ==
    \/ InputIteration
    \/ RealBuffer
    \/ FormatChanged
    \/ BuffersChanged
    \/ TryAgain
    \/ Fatal

\* ----------------------------------------------------------- specifications
\* One session: opened once, any number of encode calls, closed at any time
\* between calls.
Next ==
    \/ \E outcome \in InitOutcomes : Open(outcome)
    \/ EncClose
    \/ \E fs \in 0..MaxFrameSize : EncodeBegin(fs)
    \/ EncodeStep
    \/ EncodeReturn

Spec == Init /\ [][Next]_vars

\* Any interleaving of init and close calls on one context.
LifecycleNext ==
    \/ \E outcome \in InitOutcomes : Reinit(outcome)
    \/ EncClose

LifecycleSpec == Init /\ [][LifecycleNext]_vars

\* Any sequence of operations on one session: init whatever its state, encode
\* calls while it holds an encoder, close between calls. The encode calls are
\* flush calls here: what the output phase of a call does is the same after
\* any input loop, and Spec follows the input loops of real frames.
SessionNext ==
    \/ \E outcome \in InitOutcomes : Reinit(outcome)
    \/ EncClose
    \/ EncodeBegin(0)
    \/ EncodeStep
    \/ EncodeReturn

SessionSpec == Init /\ [][SessionNext]_vars

\* ------------------------------------------------- timestamp conversions
\* The two conversions of ff_mediacodec_enc_encode between frame timestamps
\* (in units of avctx->time_base) and the encoder's microseconds, computed
\* exactly on rationals: the rounding of the double arithmetic is left out.
\* avctx holds the time base, call the frame's pts and its microseconds, pkt
\* the pts of the packet.
MicrosPerSecond == 1000 * 1000

\* avctx->time_base values: 1/25 s, 1/90000 s, 1/700000 s, one microsecond
\* and a quarter of a microsecond
TimeBases ==
    {[num |-> 1, den |-> 25], [num |-> 1, den |-> 90000],
     [num |-> 1, den |-> 700000], [num |-> 1, den |-> 1000000],
     [num |-> 1, den |-> 4000000]}

\* fault injection: one factor of 1000 left out
PtsToMicrosMillis(pts, tb) == (pts * tb.num * 1000) \div tb.den

\* line 242: pts * av_q2d(time_base) * 1000 * 1000, truncated by the
\* conversion to int64_t
PtsToMicros(pts, tb) == (pts * tb.num * MicrosPerSecond) \div tb.den

\* line 373: round(us / av_q2d(time_base) / 1000.0 / 1000.0), halves going up
MicrosToPts(us, tb) ==
    (2 * us * tb.den + tb.num * MicrosPerSecond) \div (2 * tb.num * MicrosPerSecond)

TimestampInit ==
    /\ avctx \in [time_base : TimeBases]
    /\ call \in [pts : 0..MaxPts, pts_us : {0}]
    /\ pkt = [pts |-> 0]
    /\ pc = "L242"
    /\ s = NULL
    /\ got_packet = 0
    /\ frame_size = 0
    /\ offset = 0
    /\ ret = 0
    /\ branch = <<>>
    /\ hist = <<>>

\* line 242, and the encoder handing the timestamp back with the output
ConvertInput ==
    /\ pc = "L242"
    /\ call' = [call EXCEPT !.pts_us = PtsToMicros(call.pts, avctx.time_base)]
    /\ pc' = "L373"
    /\ UNCHANGED <<s, avctx, pkt, got_packet, frame_size, offset, ret, branch, hist>>

\* lines 373, 381
ConvertOutput ==
    /\ pc = "L373"
    /\ pkt' = [pkt EXCEPT !.pts = MicrosToPts(call.pts_us, avctx.time_base)]
    /\ pc' = "done"
    /\ UNCHANGED <<s, avctx, call, got_packet, frame_size, offset, ret, branch, hist>>

TimestampNext == ConvertInput \/ ConvertOutput

TimestampSpec == TimestampInit /\ [][TimestampNext]_vars

\* ------------------------------------------------- mcdec_map_pixel_format
\* lines 42-45
COLOR_FormatYUV420Planar == 19
COLOR_FormatYUV420SemiPlanar == 21

\* enum AVPixelFormat values of libavutil/pixfmt.h
AV_PIX_FMT_YUV420P == 0
AV_PIX_FMT_NV12 == 23

\* lines 47-58: the table, its last entry zero-filled
color_formats ==
    <<[pix_fmt |-> AV_PIX_FMT_YUV420P, color_format |-> COLOR_FormatYUV420Planar],
      [pix_fmt |-> AV_PIX_FMT_NV12, color_format |-> COLOR_FormatYUV420SemiPlanar],
      [pix_fmt |-> 0, color_format |-> 0]>>

\* FF_ARRAY_ELEMS(color_formats)
ColorFormatsElems == Len(color_formats)

\* call holds the argument pix_fmt and the loop index i (from 1 here), ret
\* the value returned, branch the line of the error message if it was logged
PixelFormatInit ==
    /\ call \in [pix_fmt : -1..MaxPixFmt, i : {1}]
    /\ pc = "L67"
    /\ ret = 0
    /\ branch = <<>>
    /\ s = NULL
    /\ avctx = NULL
    /\ pkt = NULL
    /\ got_packet = 0
    /\ frame_size = 0
    /\ offset = 0
    /\ hist = <<>>

\* lines 67-71: one iteration of the loop
MapLoop ==
    /\ pc = "L67"
    /\ call.i <= ColorFormatsElems
    /\ IF color_formats[call.i].pix_fmt = call.pix_fmt
         THEN /\ ret' = color_formats[call.i].color_format
              /\ pc' = "done"
              /\ call' = call
         ELSE /\ call' = [call EXCEPT !.i = @ + 1]
              /\ UNCHANGED <<ret, pc>>
    /\ UNCHANGED <<s, avctx, pkt, got_packet, frame_size, offset, branch, hist>>

\* lines 73-76: no entry matched
MapUnsupported ==
    /\ pc = "L67"
    /\ call.i > ColorFormatsElems
    /\ branch' = <<"L73">>
    /\ ret' = 0
    /\ pc' = "done"
    /\ UNCHANGED <<s, avctx, pkt, got_packet, frame_size, offset, call, hist>>

PixelFormatNext == MapLoop \/ MapUnsupported

PixelFormatSpec == PixelFormatInit /\ [][PixelFormatNext]_vars

\* ---------------------------------------------------------------------------
\* The copy of a real frame into input buffers, lines 196-259, taken alone:
\* the dequeue, the buffer lookup and the queue call succeed, the buffer has a
\* capacity of cap bytes, and the frame is an NV12 picture of s.width by
\* s.height whose byte count is the frame_size the caller passes. Each entry of
\* call.queued records one submitted buffer: the offset before the copy, the
\* size submitted, the capacity, the number of bytes the two memcpy calls
\* wrote into the buffer and the position in the frame planes they read from.

MaxWidth == 2
MaxHeight == 2
MaxCapacity == 6

\* line 237: the byte count of the first memcpy
LumaBytes(st) == st.width * st.height

\* line 238: the byte count of the second memcpy
ChromaBytes(st) == (st.width * st.height) \div 2

InputCopyInit ==
    /\ s \in [width : 1..MaxWidth, height : 1..MaxHeight]
    /\ frame_size = LumaBytes(s) + ChromaBytes(s)
    /\ offset = 0
    /\ call = [queued |-> <<>>]
    /\ pc = "L198"
    /\ avctx = NULL
    /\ pkt = NoPacket
    /\ got_packet = 0
    /\ ret = 0
    /\ branch = <<>>
    /\ hist = <<>>

\* lines 196-259: one iteration for a real frame
CopyIteration ==
    /\ pc = "L198"
    /\ \E cap \in 1..MaxCapacity :
         LET sz == CopySize(frame_size, offset, cap)
         IN  /\ call' = [call EXCEPT !.queued =
                           Append(@, [offset |-> offset, size |-> sz, cap |-> cap,
                                      written |-> LumaBytes(s) + ChromaBytes(s),
                                      src |-> 0])]
             /\ offset' = offset + sz
             /\ pc' = AfterQueueInput(frame_size, offset + sz)
    /\ UNCHANGED <<s, avctx, pkt, got_packet, frame_size, ret, branch, hist>>

InputCopyNext == CopyIteration

InputCopySpec == InputCopyInit /\ [][InputCopyNext]_vars


\* ------------------------------------------------------------- properties
\* an encode call is under way or has just returned
InCall == pc # "idle"

\* the call under way is past its input loop
PastInput == pc \in {"L277", "return", "crash"}

\* C1: buffer conservation. When an encode call returns, every input buffer
\* index it dequeued has been queued exactly once and every output buffer
\* index it dequeued has been released exactly once, so none is still held,
\* on every path including the error returns.
C1_BufferConservation ==
    pc = "return" =>
        /\ \A i \in InputBufferIndices : call.inHeld[i] = 0
        /\ \A i \in OutputBufferIndices : call.outHeld[i] = 0

\* C2: exactly-once extradata prefixing. Counting the payloads (size > 0, not
\* configuration) the session has retrieved, the configuration bytes are
\* prepended to the first one at most, and to none in global-header mode; a
\* packet marked produced is the payload alone, or the session's extradata
\* followed by the payload when it is the prefixed one.
C2_ExtradataPrefixOnce ==
    /\ hist.prefixAt \subseteq {1}
    /\ avctx.global_header => hist.prefixAt = {}
    /\ (pc = "return" /\ got_packet = 1) =>
          IF hist.retrievals \in hist.prefixAt
            THEN /\ pkt.size = s.extradata_size + call.outInfo.size
                 /\ SubSeq(pkt.data, 1, s.extradata_size) = s.extradata
            ELSE pkt.size = call.outInfo.size

\* the second call of a session retrieves its first payload and puts the
\* captured configuration bytes in front of it
C2_Witness ==
    /\ pc = "return"
    /\ got_packet = 1
    /\ ~avctx.global_header
    /\ hist.retrievals = 1
    /\ hist.prefixAt = {1}
    /\ Len(s.extradata) > 0
    /\ pkt.size = Len(s.extradata) + call.outInfo.size

\* C3: queue counter. Between encode calls queued_buffer_nb is >= 0 and is the
\* number of successful real-frame submissions minus the number of payload
\* retrievals, whatever the encoder answers.
C3_QueueCounter ==
    pc = "idle" =>
        /\ s.queued_buffer_nb >= 0
        /\ s.queued_buffer_nb = hist.submits - hist.retrievals

\* C4 as stated: an encode call with frame_size = 0 that returns without error
\* has made one input-buffer request and one submission, of size 0 with the
\* end-of-stream flag.
C4_EndOfStreamExactlyOne ==
    (pc = "return" /\ frame_size = 0 /\ ret >= 0) =>
        /\ call.inReq = 1
        /\ Len(call.queued) = 1
        /\ call.queued[1].size = 0
        /\ call.queued[1].flags = {BUFFER_FLAG_END_OF_STREAM}

\* C4 amended: an encode call with frame_size = 0 makes one input-buffer
\* request and no more; it submits the buffer it got, with size 0 and the
\* end-of-stream flag, and nothing else; it submits nothing when the request
\* says try-again or fails.
C4_EndOfStreamAtMostOne ==
    (InCall /\ frame_size = 0) =>
        /\ call.inReq = IF pc = "L198" THEN 0 ELSE 1
        /\ Len(call.queued) <= 1
        /\ \A k \in 1..Len(call.queued) :
              /\ call.queued[k].size = 0
              /\ call.queued[k].flags = {BUFFER_FLAG_END_OF_STREAM}
        /\ call.timedOut => call.queued = <<>>
        /\ (PastInput /\ ~call.timedOut /\ ~call.inFailed) => Len(call.queued) = 1

\* a flush call has queued its end-of-stream buffer and gone on to return
C4_Witness ==
    /\ pc = "return"
    /\ frame_size = 0
    /\ Len(call.queued) = 1
    /\ call.queued[1].status >= 0
    /\ call.queued[1].flags = {BUFFER_FLAG_END_OF_STREAM}
    /\ call.outReq = 1

\* C5: flushing state. In a call that began after an end-of-stream buffer was
\* successfully queued, the session is flushing, and a try-again result of the
\* output dequeue logs the flushing message of line 431.
C5_FlushingAfterEndOfStream ==
    (InCall /\ call.eosBefore) =>
        /\ s.flushing
        /\ call.msg \in {"", "L431"}

\* the outcome the classification of the output dequeue result asks for
OutcomeByPriority(idx) ==
    IF idx >= 0 THEN "buffer"
    ELSE IF idx = INFO_OUTPUT_FORMAT_CHANGED THEN "format_changed"
    ELSE IF idx = INFO_OUTPUT_BUFFERS_CHANGED THEN "buffers_changed"
    ELSE IF idx = INFO_TRY_AGAIN_LATER THEN "try_again"
    ELSE "fatal"

\* C6: output classification. A call that returns without having failed in its
\* input loop has made exactly one output dequeue and entered exactly one
\* outcome branch, the one the priority order gives for the dequeue result; a
\* call that failed in its input loop has made none.
C6_OutputClassification ==
    /\ Len(branch) = call.outReq
    /\ call.outReq <= 1
    /\ pc = "return" =>
          IF call.inFailed
            THEN call.outReq = 0
            ELSE /\ call.outReq = 1
                 /\ branch = <<OutcomeByPriority(call.outIdx)>>

\* a call whose input dequeue timed out has classified a format change
C6_Witness ==
    /\ pc = "return"
    /\ ~call.inFailed
    /\ call.timedOut
    /\ call.outIdx = INFO_OUTPUT_FORMAT_CHANGED
    /\ branch = <<"format_changed">>

\* the step of a call that takes the format-changed branch
FormatChangedStep == pc = "L277" /\ branch' = <<"format_changed">>

\* C7: output format change. The format-changed step deletes the cached
\* format if there is one and nothing else, caches the format the encoder
\* gives (a new one, or none when the encoder gives none), marks no packet and
\* leaves queued_buffer_nb, extradata and first_buffer alone; and once a
\* format change has happened, a payload buffer whose call returns without
\* error still marks a packet produced.
C7_OutputFormatChange ==
    [][/\ FormatChangedStep =>
            /\ hist'.fmtDeleted =
                  IF s.format # NULL
                    THEN Append(hist.fmtDeleted, s.format)
                    ELSE hist.fmtDeleted
            /\ \/ s'.format = NULL /\ ret' < 0 /\ hist'.fmtCreated = hist.fmtCreated
               \/ s'.format = hist.fmtCreated + 1 /\ hist'.fmtCreated = s'.format
            /\ got_packet' = 0
            /\ s'.queued_buffer_nb = s.queued_buffer_nb
            /\ s'.extradata = s.extradata
            /\ s'.extradata_size = s.extradata_size
            /\ s'.first_buffer = s.first_buffer
       /\ (/\ pc = "L277"
           /\ hist.fmtChanged
           /\ pc' = "return"
           /\ ret' >= 0
           /\ call'.outIdx >= 0
           /\ call'.outInfo.size > 0
           /\ BUFFER_FLAG_CODEC_CONFIG \notin call'.outInfo.flags)
          => got_packet' = 1
      ]_vars

\* after a format change that replaced a cached format, a call has retrieved a
\* payload and marked a packet
C7_Witness ==
    /\ pc = "return"
    /\ hist.fmtChanged
    /\ s.format # NULL
    /\ got_packet = 1
    /\ ret >= 0
    /\ branch = <<"buffer">>

\* the number of ff_AMediaCodec_delete calls made on handle h
Deletions(h) == Cardinality({k \in 1..Len(hist.deleted) : hist.deleted[k] = h})

\* C8: idempotent close. Whatever init and close calls have been made, each
\* encoder handle created has been deleted exactly once unless it is the one
\* the session holds, which has not been deleted; the session holds none after
\* a close and after a failed init; close returns success and has never
\* deleted the empty handle.
C8_IdempotentClose ==
    /\ \A h \in 1..hist.created :
          Deletions(h) = IF s.codec = h THEN 0 ELSE 1
    /\ Deletions(NULL) = 0
    /\ hist.last = "close" => s.codec = NULL /\ ret = 0
    /\ (hist.last = "init" /\ ret < 0) => s.codec = NULL

\* the step of the input loop on which the input dequeue says try-again
InputTimeoutStep == pc = "L198" /\ call'.timedOut

\* C9: input timeout is not fatal. The step on which the input dequeue says
\* try-again leaves the loop for the output dequeue without returning, queues
\* nothing and leaves the session as the earlier submissions of the call left
\* it; the rest of the call makes no input-buffer request or submission; and
\* the call returns offset, not an error, when the output dequeue says
\* try-again or buffers-changed.
C9_InputTimeoutNonFatal ==
    [][/\ InputTimeoutStep =>
            /\ pc' = "L277"
            /\ call'.inReq = call.inReq + 1
            /\ call'.queued = call.queued
            /\ ~call'.inFailed
            /\ s' = s
            /\ offset' = offset
       /\ (call.timedOut /\ pc' # "idle") =>
            /\ call'.inReq = call.inReq
            /\ call'.queued = call.queued
            /\ call'.inHeld = call.inHeld
       /\ (/\ call.timedOut
           /\ pc' = "return"
           /\ call'.outIdx \in {INFO_TRY_AGAIN_LATER, INFO_OUTPUT_BUFFERS_CHANGED})
          => /\ ret' = offset
             /\ ret' >= 0
             /\ s'.queued_buffer_nb = s.queued_buffer_nb
      ]_vars

\* a call for a real frame queued one buffer, then timed out on the next input
\* dequeue, and returned the bytes consumed
C9_Witness ==
    /\ pc = "return"
    /\ call.timedOut
    /\ frame_size > 0
    /\ Len(call.queued) = 1
    /\ call.inReq = 2
    /\ ret >= 0
    /\ branch = <<"try_again">>

\* C10: bounded return. For a real frame every iteration of the input loop that
\* is followed by another has consumed at least one byte of the frame, so the
\* call makes at most frame_size input-buffer requests whatever the encoder
\* answers, buffers of capacity 0 included; and no submission follows a
\* failed one.
C10_BoundedReturn ==
    (InCall /\ frame_size > 0) =>
        /\ call.inReq <= frame_size
        /\ \A k \in 1..(Len(call.queued) - 1) : call.queued[k].status >= 0

\* C11 as stated: one-shot first-payload flag. Once first_buffer is not 0 it
\* is not 0 in every later state of the session: no operation takes it back
\* to 0.
C11_FirstBufferOneShot == [][s.first_buffer # 0 => s'.first_buffer # 0]_vars

\* a step of ff_mediacodec_enc_init
InitStep == hist'.inits = hist.inits + 1

\* C11 amended: once first_buffer is not 0, no encode call and no close takes
\* it back to 0; ff_mediacodec_enc_init does, every time it is called.
C11_FirstBufferResetOnlyByInit ==
    [][/\ (s.first_buffer # 0 /\ s'.first_buffer = 0) => InitStep
       /\ InitStep => s'.first_buffer = 0
       /\ ~InitStep => s'.first_buffer >= s.first_buffer
      ]_vars

\* the first payload was retrieved, a second call returned, and the session
\* was closed: first_buffer is still not 0
C11_Witness ==
    /\ pc = "idle"
    /\ s.first_buffer # 0
    /\ hist.retrievals > 0
    /\ hist.calls = 2
    /\ hist.last = "close"

\* the distance between the pts of the frame and the pts of the packet
RoundTripError == IF pkt.pts > call.pts THEN pkt.pts - call.pts ELSE call.pts - pkt.pts

TableColorFormats == {color_formats[k].color_format : k \in 1..Len(color_formats)}

\* C13: pixel format mapping. mcdec_map_pixel_format returns 0x13 for YUV420P
\* and 0x15 for NV12; for every other pixel format it logs the failure and
\* returns a value that is the color format of no entry of the table, the
\* sentinel entry included.
C13_PixelFormatMapping ==
    pc = "done" =>
        IF call.pix_fmt = AV_PIX_FMT_YUV420P THEN ret = 19 /\ branch = <<>>
        ELSE IF call.pix_fmt = AV_PIX_FMT_NV12 THEN ret = 21 /\ branch = <<>>
        ELSE branch = <<"L73">> /\ ret \notin TableColorFormats

\* the step on which a call that dequeued output buffer 0 or above returns
\* without error
RealBufferReturns ==
    /\ pc = "L277"
    /\ pc' = "return"
    /\ call'.outIdx >= 0
    /\ ret' >= 0

\* C14: non-error exits of the real-buffer path. A call that dequeued a valid
\* output index and returns without error has released that buffer exactly
\* once, so it holds none, on each exit: a payload, which marks a packet; a
\* zero-size buffer, which gives packet size 0 and an unset pts, marks no
\* packet and leaves queued_buffer_nb alone; a configuration capture, which
\* marks no packet.
C14_RealBufferExits ==
    [][RealBufferReturns =>
          /\ call'.outReq = 1
          /\ \A i \in OutputBufferIndices : call'.outHeld[i] = 0
          /\ IF call'.outInfo.size = 0
               THEN /\ pkt'.size = 0
                    /\ pkt'.pts = "AV_NOPTS_VALUE"
                    /\ got_packet' = 0
                    /\ s'.queued_buffer_nb = s.queued_buffer_nb
             ELSE IF BUFFER_FLAG_CODEC_CONFIG \in call'.outInfo.flags
               THEN got_packet' = 0
               ELSE got_packet' = 1 /\ pkt'.pts = "pkt_pts"
      ]_vars

\* a call has returned without error from a zero-size output buffer
C14_Witness ==
    /\ pc = "return"
    /\ ret >= 0
    /\ branch = <<"buffer">>
    /\ call.outInfo.size = 0
    /\ pkt.pts = "AV_NOPTS_VALUE"
    /\ call.outHeld[0] = 0

\* the sum of the sizes of queueInputBuffer calls q
RECURSIVE SumSizes(_)
SumSizes(q) == IF q = <<>> THEN 0 ELSE q[1].size + SumSizes(Tail(q))

\* C15: consumed offset. An encode call that returns without error returns 0
\* for a flush call, and for a real frame an offset between 0 and frame_size
\* that is the sum of the sizes it passed to queueInputBuffer, and is
\* frame_size when its input dequeue did not time out.
C15_ConsumedOffset ==
    (pc = "return" /\ ret >= 0) =>
        IF frame_size = 0
          THEN ret = 0
          ELSE /\ 0 <= ret
               /\ ret <= frame_size
               /\ ret = SumSizes(call.queued)
               /\ ~call.timedOut => ret = frame_size

\* a frame of two bytes went into two input buffers and the call returned 2
C15_Witness ==
    /\ pc = "return"
    /\ frame_size = 2
    /\ Len(call.queued) = 2
    /\ call.queued[1].size = 1
    /\ ~call.timedOut
    /\ ret = 2

\* the step of a call whose output dequeue gave a buffer of size > 0 that
\* carries the codec-config flag
ConfigOutcome ==
    /\ pc = "L277"
    /\ call'.outIdx >= 0
    /\ call'.outInfo.size > 0
    /\ BUFFER_FLAG_CODEC_CONFIG \in call'.outInfo.flags

\* C16: configuration capture. A call that captures a configuration buffer
\* and returns without error leaves the session extradata equal to the bytes
\* and length of that buffer, marks no packet, leaves queued_buffer_nb,
\* dequeued_buffer_nb and first_buffer alone and, in global-header mode, leaves
\* the stream-level extradata with the same bytes and length; no step of any
\* other outcome changes the session extradata.
C16_ConfigurationCapture ==
    [][/\ (ConfigOutcome /\ pc' = "return" /\ ret' >= 0) =>
            /\ s'.extradata = call'.outData
            /\ s'.extradata_size = call'.outInfo.size
            /\ got_packet' = 0
            /\ s'.queued_buffer_nb = s.queued_buffer_nb
            /\ s'.dequeued_buffer_nb = s.dequeued_buffer_nb
            /\ s'.first_buffer = s.first_buffer
            /\ avctx.global_header =>
                  /\ avctx'.extradata = call'.outData
                  /\ avctx'.extradata_size = call'.outInfo.size
       /\ ~ConfigOutcome =>
            /\ s'.extradata = s.extradata
            /\ s'.extradata_size = s.extradata_size
      ]_vars

\* C17: input copy bound. For every input buffer submitted for a real frame
\* the number of bytes written into it equals the size submitted with it,
\* which is min(frame_size - offset, capacity) and so within the capacity, and
\* the bytes are read from the frame at the running offset.
C17_InputCopyBound ==
    \A i \in 1..Len(call.queued) :
      LET q == call.queued[i]
      IN  /\ q.size = FFMIN(frame_size - q.offset, q.cap)
          /\ q.written = q.size
          /\ q.written <= q.cap
          /\ q.src = q.offset

\* C18: packet capacity. The bytes written into the output packet and the
\* packet size reported to the caller never exceed the size the packet was
\* allocated with by ff_alloc_packet2 in that call.
C18_PacketCapacity ==
    /\ Len(pkt.data) <= pkt.alloc
    /\ pkt.size <= pkt.alloc

\* C19: no access after the return of a lease. Within an encode call no
\* memcpy reads an output buffer after it went to releaseOutputBuffer and no
\* memcpy writes an input buffer after it went to queueInputBuffer.
C19_NoAccessAfterRelease ==
    InCall => ~call.staleRead /\ ~call.staleWrite

\* C20: no packet on error. A call that returns a negative value has not
\* marked a packet produced, and the step of the output path that returns it
\* has left queued_buffer_nb and dequeued_buffer_nb alone.
C20_NoPacketOnError ==
    [][(pc = "L277" /\ pc' = "return" /\ ret' < 0) =>
          /\ got_packet' = 0
          /\ s'.queued_buffer_nb = s.queued_buffer_nb
          /\ s'.dequeued_buffer_nb = s.dequeued_buffer_nb
      ]_vars

====
